---- MODULE Spec2Model ----
(***************************************************************************)
(* Profile store, profile-update pipeline and college recommendation       *)
(* handlers (list generation, why-reasons, bulk backfill) of the MyPath    *)
(* backend (backend/server.js, second revision, and                        *)
(* backend/utils/profileUtils.js).                                         *)
(*                                                                         *)
(* A request handler is an async function: it runs without interruption    *)
(* between two awaits, so every action below is one such segment.  The      *)
(* database holds one document per user key; a handler works on the copy   *)
(* it loaded (findOne) and writes it back with save().                     *)
(*                                                                         *)
(* Strings that the code builds by concatenation are sequences of tokens.  *)
(***************************************************************************)
EXTENDS Integers, Sequences, FiniteSets, TLC

VARIABLES
    store,      \* the profiles collection: user key -> stored document
    inflight,   \* the requests that are suspended at an await
    issued,     \* number of requests received so far
    done,       \* the response sent last
    merged,     \* history: per category, the answer maps of the saved merges
    calls       \* history: per user and school, the invocations of the
                \* why-reasons workflow since the last saved college list

vars == <<store, inflight, issued, done, merged, calls>>

-----------------------------------------------------------------------------
(* Bounds of the model *)

MaxRequests == 3        \* requests received in a run of Spec
MaxConcRequests == 3    \* requests received in a run of SpecConc
MaxInFlight == 2        \* requests suspended at the same time in SpecConc
MaxAnswers == 2         \* entries of one answers object
MaxCollegeRequests == 4     \* requests received in a run of SpecColleges
MaxCollegeConcRequests == 4 \* requests received in a run of SpecCollegesConc
MaxSchools == 2         \* records of one college list of the workflow
MaxStrategyRequests == 3    \* requests of a behaviour with strategy requests
MaxAnswerRequests == 4      \* requests of a behaviour with answer read-backs

UserIds == {"u1"}
InputCategories == {"academics", "interests", "hobbies", "constructor"}
InputQuestionIds == {"a1", "zz"}
InputAnswerValues == {"A"}
InputTrackerKeys == {"sat", "gpa"}
InputTrackerValues == {"v1"}
AIOutcomes == {"ok", "nosummary", "fail"}
SummaryOutcomes == AIOutcomes \cup {"blank"}
ConcSummaryOutcomes == {"ok", "fail"}
Schools == {"S1", "S2"}
InputTags == {"Reach", "target", "Safety", "Likely", "Other"}
ReasonLists == {<<>>, <<"r1">>}

-----------------------------------------------------------------------------
(* Values *)

Str(tokens) == [kind |-> "string", text |-> tokens]
EmptyString == Str(<<>>)
Undefined == [kind |-> "undefined", text |-> <<>>]
\* the summary field of the workflow's answer to the prompt p
AISummary(p) == [kind |-> "ai", text |-> p.text]

RECURSIVE Concat(_)
Concat(seqs) == IF seqs = <<>> THEN <<>> ELSE Head(seqs) \o Concat(Tail(seqs))

RECURSIVE Join(_, _)
Join(items, sep) ==
    IF items = <<>> THEN <<>>
    ELSE IF Len(items) = 1 THEN <<items[1]>>
    ELSE <<items[1], sep>> \o Join(Tail(items), sep)

IsSpace(tok) == tok \in {"\n", " ", ""}

RECURSIVE TrimLeft(_)
TrimLeft(toks) ==
    IF toks # <<>> /\ IsSpace(Head(toks)) THEN TrimLeft(Tail(toks)) ELSE toks

RECURSIVE TrimRight(_)
TrimRight(toks) ==
    IF toks # <<>> /\ IsSpace(toks[Len(toks)])
    THEN TrimRight(SubSeq(toks, 1, Len(toks) - 1))
    ELSE toks

Trim(toks) == TrimRight(TrimLeft(toks))

-----------------------------------------------------------------------------
(* The question catalog *)

Q(id, question) == [id |-> id, question |-> question]

ALL_QUESTIONS ==
    [collegeMatch |-> <<
        Q("q1", "What type of college are you looking for?"),
        Q("q2", "What size of college are you looking for?"),
        Q("q3", "What is your preferred location?"),
        Q("q4", "What is your preferred region?") >>,
     academics |-> <<
        Q("a1", "What is your GPA (on a 4.0 scale)?"),
        Q("a2", "Have you taken any AP, IB, or Honors courses?"),
        Q("a3", "What is your intended major or field of study?") >>,
     interests |-> <<
        Q("i1", "Which extracurricular activities are you involved in?"),
        Q("i2", "What do you enjoy doing in your free time?"),
        Q("i3", "What kind of campus environment appeals to you?") >>,
     financial |-> <<
        Q("f1", "Do you intend to apply for financial aid?"),
        Q("f2", "What is your estimated annual household income?"),
        Q("f3", "Are you interested in work-study programs?") >>]

\* names every object inherits: ALL_QUESTIONS[name] is a function, not a list
ObjectPrototypeNames == {"constructor", "toString", "valueOf", "hasOwnProperty"}

\* ALL_QUESTIONS[category]
questionsForCategory(category) ==
    IF category \in DOMAIN ALL_QUESTIONS
    THEN [kind |-> "array", list |-> ALL_QUESTIONS[category]]
    ELSE IF category \in ObjectPrototypeNames
    THEN [kind |-> "function", list |-> <<>>]
    ELSE [kind |-> "undefined", list |-> <<>>]

\* the first revision of the handler: no test of questionsForCategory
NoCategoryGuard(qfc) == TRUE

\* if (questionsForCategory)
IsTruthy(qfc) == qfc.kind # "undefined"

\* questionsForCategory.find(q => q.id === questionId): the first match
find(list, questionId) ==
    LET hits == {i \in 1..Len(list) : list[i].id = questionId}
    IN  IF hits = {} THEN [found |-> FALSE, question |-> ""]
        ELSE [found |-> TRUE,
              question |-> list[CHOOSE i \in hits : \A j \in hits : i <= j].question]

\* the first revision of the handler: question.text, a key the catalog lacks
questionTextRev1(question) ==
    IF question.found THEN "undefined" ELSE "Unknown Question"

\* question ? question.question : 'Unknown Question'
questionText(question) ==
    IF question.found THEN question.question ELSE "Unknown Question"

\* one element of formattedAnswers
formatAnswer(category, list, entry) ==
    [id |-> entry.id,
     category |-> category,
     question |-> questionText(find(list, entry.id)),
     answer |-> entry.answer]

\* Object.entries(answers).map(...)
formattedAnswers(category, list, answers) ==
    [i \in 1..Len(answers) |-> formatAnswer(category, list, answers[i])]

\* a filter that removes nothing
keepAllAnswers(questionnaire, category) == questionnaire

\* profile.questionnaire.filter(q => q.category !== category)
otherCategoryAnswers(questionnaire, category) ==
    SelectSeq(questionnaire, LAMBDA q : q.category # category)

\* [...formattedAnswers, ...otherCategoryAnswers]
mergeNewFirst(questionnaire, category, answers) ==
    formattedAnswers(category, questionsForCategory(category).list, answers)
        \o otherCategoryAnswers(questionnaire, category)

\* [...profile.questionnaire, ...formattedAnswers]
mergeAppendOnly(questionnaire, category, answers) ==
    questionnaire
        \o formattedAnswers(category, questionsForCategory(category).list, answers)

\* [...otherCategoryAnswers, ...formattedAnswers]
mergeQuestionnaire(questionnaire, category, answers) ==
    otherCategoryAnswers(questionnaire, category)
        \o formattedAnswers(category, questionsForCategory(category).list, answers)

\* profile.tracker = updates.tracker: the keys not named fall back to defaults
replaceTracker(tracker, update) ==
    [k \in DOMAIN tracker |-> IF k \in DOMAIN update THEN update[k] ELSE "default"]

\* { ...profile.tracker, ...updates.tracker }
mergeTracker(tracker, update) ==
    [k \in (DOMAIN tracker) \cup (DOMAIN update) |->
        IF k \in DOMAIN update THEN update[k] ELSE tracker[k]]

-----------------------------------------------------------------------------
(* The Summary Generator *)

questionnaireLines(questionnaire) ==
    Concat([i \in 1..Len(questionnaire) |->
        <<"- ", questionnaire[i].question, ": ", questionnaire[i].answer, "\n">>])

profileString(profile) ==
    Str(Trim(
        <<"--- Student Profile ---", "\n">>
        \o (IF Len(profile.questionnaire) > 0
            THEN <<"Questionnaire Answers:", "\n">>
                 \o questionnaireLines(profile.questionnaire)
            ELSE <<>>)
        \o (IF Len(profile.discovered.interests) > 0
            THEN <<"Discovered Interests: ">>
                 \o Join(profile.discovered.interests, ", ") \o <<"\n">>
            ELSE <<>>)
        \o (IF Len(profile.discovered.strengths) > 0
            THEN <<"Discovered Strengths: ">>
                 \o Join(profile.discovered.strengths, ", ") \o <<"\n">>
            ELSE <<>>)))

\* a generator whose catch returns the summary the profile already has
generateProfileSummaryKeepsOld(profile, outcome) ==
    CASE outcome = "ok" -> AISummary(profileString(profile))
      [] outcome = "nosummary" -> Undefined
      [] outcome = "blank" -> Str(<<" ">>)
      [] OTHER -> profile.profileSummary

\* a generator without the catch: a failed workflow call reaches the caller
generateProfileSummaryNoCatch(profile, outcome) ==
    CASE outcome = "ok" -> AISummary(profileString(profile))
      [] outcome = "nosummary" -> Undefined
      [] outcome = "blank" -> Str(<<" ">>)
      [] OTHER -> [kind |-> "throw", text |-> <<>>]

\* outcome: what the awaited workflow call does.  "ok": outputs.summary is a
\* text; "blank": it is a text of white space; "nosummary": outputs has no
\* summary; anything else: the call or the reading of its answer throws
generateProfileSummary(profile, outcome) ==
    CASE outcome = "ok" -> AISummary(profileString(profile))
      [] outcome = "nosummary" -> Undefined
      [] outcome = "blank" -> Str(<<" ">>)
      [] OTHER -> profileString(profile)

-----------------------------------------------------------------------------
(* The profile store *)

DefaultTracker == [sat |-> "default", gpa |-> "default", competitions |-> "default"]

\* new Profile({ userId, name, password }): the schema defaults
NewProfile ==
    [questionnaire |-> <<>>,
     discovered |-> [interests |-> <<>>, strengths |-> <<>>, goals |-> <<>>],
     tracker |-> DefaultTracker,
     collegeList |-> [reach |-> <<>>, target |-> <<>>, likely |-> <<>>,
                      lastGenerated |-> 0],
     profileSummary |-> EmptyString,
     applicationStrategies |-> [earlyDecision |-> <<>>, earlyAction |-> <<>>,
                                strengthsToHighlight |-> <<>>]]

\* Profile.findOne: a path the document lacks gets its default
findOne(u) ==
    [store[u] EXCEPT !.profileSummary = IF @ = Undefined THEN EmptyString ELSE @]

\* profile.save(): the paths whose value differs from the loaded one are written
save(u, loaded, doc) ==
    [store EXCEPT ![u] =
        [f \in DOMAIN doc |-> IF doc[f] # loaded[f] THEN doc[f] ELSE @[f]]]

\* the mock answer of the strengths analysis, as s.text
generatedStrengths ==
    <<"Strong Academic Performer", "Community-Oriented", "Creative Thinker">>

-----------------------------------------------------------------------------
(* Requests *)

AnswerMaps ==
    {a \in UNION {[1..n -> [id : InputQuestionIds, answer : InputAnswerValues]]
                    : n \in 0..MaxAnswers} :
        \A i, j \in 1..Len(a) : a[i].id = a[j].id => i = j}

\* updates.tracker: an object naming one or more of the keys
TrackerUpdates ==
    UNION {[K -> InputTrackerValues] : K \in (SUBSET InputTrackerKeys) \ {{}}}

NoBody == [hasQ |-> FALSE, category |-> "", answers |-> <<>>,
           hasT |-> FALSE, tracker |-> <<>>]

\* updates.questionnaire: absent, or one category with its answers
QuestionnaireParts ==
    {[hasQ |-> FALSE, category |-> "", answers |-> <<>>]}
    \cup {[hasQ |-> TRUE, category |-> c, answers |-> a] :
            c \in InputCategories, a \in AnswerMaps}

\* updates.tracker: absent, or an object
TrackerParts ==
    {[hasT |-> FALSE, tracker |-> <<>>]}
    \cup {[hasT |-> TRUE, tracker |-> t] : t \in TrackerUpdates}

\* req.body of PUT /api/profile/:userId
PutBodies ==
    {[hasQ |-> q.hasQ, category |-> q.category, answers |-> q.answers,
      hasT |-> t.hasT, tracker |-> t.tracker] :
        q \in QuestionnaireParts, t \in TrackerParts}

\* the response sent.  removed and repeat are history: how many stale records
\* the request's merge filtered out, and whether the request repeats the
\* questionnaire payload of the successful update answered just before it
Response(n, kind, user, status, body, removed, repeat) ==
    [n |-> n, kind |-> kind, user |-> user, status |-> status, body |-> body,
     removed |-> removed, repeat |-> repeat]

Init ==
    /\ store = <<>>
    /\ inflight = {}
    /\ issued = 0
    /\ done = Response(0, "none", "", 0, NoBody, 0, FALSE)
    /\ merged = [c \in DOMAIN ALL_QUESTIONS |-> {}]
    /\ calls = [u \in UserIds |-> [s \in Schools |-> 0]]

\* POST /api/users/create
CreateUser(u) ==
    /\ issued' = issued + 1
    /\ IF u \in DOMAIN store
       THEN /\ done' = Response(issued + 1, "create", u, 409, NoBody, 0, FALSE)
            /\ UNCHANGED store
       ELSE /\ store' = [v \in DOMAIN store \cup {u} |->
                            IF v = u THEN NewProfile ELSE store[v]]
            /\ done' = Response(issued + 1, "create", u, 201, NoBody, 0, FALSE)
    /\ UNCHANGED <<inflight, merged, calls>>

\* a merge that is skipped when there is nothing to insert
MergeRunsNonEmpty(body) ==
    /\ body.hasQ /\ IsTruthy(questionsForCategory(body.category))
    /\ Len(body.answers) > 0

\* the merge block runs
MergeRuns(body) == body.hasQ /\ IsTruthy(questionsForCategory(body.category))

\* the map callback calls .find on something that is not a list
MergeThrows(body) ==
    /\ MergeRuns(body)
    /\ questionsForCategory(body.category).kind # "array"
    /\ Len(body.answers) > 0

\* the document after the update logic, before the summary
updatedProfile(profile, body) ==
    [profile EXCEPT
        !.questionnaire =
            IF MergeRuns(body)
            THEN mergeQuestionnaire(@, body.category, body.answers)
            ELSE @,
        !.tracker = IF body.hasT THEN mergeTracker(@, body.tracker) ELSE @]

\* PUT /api/profile/:userId up to the await of the workflow call
PutBegin(u, body) ==
    /\ issued' = issued + 1
    /\ IF u \notin DOMAIN store
       THEN /\ done' = Response(issued + 1, "put", u, 404, body, 0, FALSE)
            /\ UNCHANGED inflight
       ELSE IF MergeThrows(body)
       THEN /\ done' = Response(issued + 1, "put", u, 500, body, 0, FALSE)
            /\ UNCHANGED inflight
       ELSE /\ inflight' = inflight \cup
                {[n |-> issued + 1, kind |-> "put", user |-> u, body |-> body,
                  pc |-> "ai", loaded |-> findOne(u),
                  doc |-> updatedProfile(findOne(u), body)]}
            /\ UNCHANGED done
    /\ UNCHANGED <<store, merged, calls>>

\* the summary computed from the document as it was loaded
summaryInputLoaded(r) == r.loaded

\* the profile generateProfileSummary is called with
summaryInput(r) == r.doc

\* the workflow call returns: profile.profileSummary = await generateProfileSummary(profile)
PutSummary(r, outcome) ==
    /\ r.kind = "put" /\ r.pc = "ai"
    /\ inflight' = (inflight \ {r}) \cup
        {[r EXCEPT !.pc = "save",
                   !.doc.profileSummary =
                        generateProfileSummary(summaryInput(r), outcome)]}
    /\ UNCHANGED <<store, issued, done, merged, calls>>

categoryRecords(questionnaire, category) ==
    SelectSeq(questionnaire, LAMBDA q : q.category = category)

removedBy(r) ==
    IF MergeRuns(r.body)
    THEN Len(categoryRecords(r.loaded.questionnaire, r.body.category))
    ELSE 0

SameQuestionnairePart(b1, b2) ==
    /\ b1.hasQ /\ b2.hasQ
    /\ b1.category = b2.category
    /\ b1.answers = b2.answers

Repeats(body) ==
    /\ done.kind = "put" /\ done.status = 200
    /\ SameQuestionnairePart(done.body, body)

\* await profile.save(); res.json(...)
PutSave(r) ==
    /\ r.kind = "put" /\ r.pc = "save"
    /\ store' = save(r.user, r.loaded, r.doc)
    /\ inflight' = inflight \ {r}
    /\ done' = Response(r.n, "put", r.user, 200, r.body, removedBy(r), Repeats(r.body))
    /\ merged' = IF MergeRuns(r.body) /\ r.body.category \in DOMAIN merged
                 THEN [merged EXCEPT ![r.body.category] = @ \cup {r.body.answers}]
                 ELSE merged
    /\ UNCHANGED <<issued, calls>>

\* POST /api/profile/:userId/analyze/strengths up to the await of save()
AnalyzeBegin(u) ==
    /\ issued' = issued + 1
    /\ IF u \notin DOMAIN store
       THEN /\ done' = Response(issued + 1, "analyze", u, 404, NoBody, 0, FALSE)
            /\ UNCHANGED inflight
       ELSE /\ inflight' = inflight \cup
                {[n |-> issued + 1, kind |-> "analyze", user |-> u, body |-> NoBody,
                  pc |-> "save", loaded |-> findOne(u),
                  doc |-> [findOne(u) EXCEPT !.discovered.strengths = generatedStrengths]]}
            /\ UNCHANGED done
    /\ UNCHANGED <<store, merged, calls>>

\* await profile.save(); res.json(generatedStrengths).  discovered is a
\* schema-less object written in place: whether the write is tracked, and so
\* saved, is the object mapper's decision.
AnalyzeSave(r, tracked) ==
    /\ r.kind = "analyze" /\ r.pc = "save"
    /\ store' = IF tracked THEN save(r.user, r.loaded, r.doc) ELSE store
    /\ inflight' = inflight \ {r}
    /\ done' = Response(r.n, "analyze", r.user, 200, NoBody, 0, FALSE)
    /\ UNCHANGED <<issued, merged, calls>>

\* one request at a time: a request is received when none is suspended
Sequential == inflight = {} /\ issued < MaxRequests

Next ==
    \/ \E u \in UserIds : Sequential /\ CreateUser(u)
    \/ \E u \in UserIds : \E body \in PutBodies :
            Sequential /\ PutBegin(u, body)
    \/ \E u \in UserIds : Sequential /\ AnalyzeBegin(u)
    \/ \E r \in inflight : \E outcome \in AIOutcomes : PutSummary(r, outcome)
    \/ \E r \in inflight : PutSave(r)
    \/ \E r \in inflight : \E tracked \in BOOLEAN : AnalyzeSave(r, tracked)

Spec == Init /\ [][Next]_vars

\* requests interleave at their awaits
Concurrent == Cardinality(inflight) < MaxInFlight /\ issued < MaxConcRequests

ConcNext ==
    \/ \E u \in UserIds : Concurrent /\ CreateUser(u)
    \/ \E u \in UserIds : \E body \in PutBodies :
            Concurrent /\ PutBegin(u, body)
    \/ \E u \in UserIds : Concurrent /\ AnalyzeBegin(u)
    \/ \E r \in inflight : \E outcome \in AIOutcomes : PutSummary(r, outcome)
    \/ \E r \in inflight : PutSave(r)
    \/ \E r \in inflight : \E tracked \in BOOLEAN : AnalyzeSave(r, tracked)

SpecConc == Init /\ [][ConcNext]_vars

-----------------------------------------------------------------------------
(* The college list *)

\* a record of the workflow's college list
College(school, category) == [school |-> school, category |-> category]

\* JSON.parse(aiData.data.outputs.CollegeList), when it is a list of records
CollegeLists ==
    UNION {[1..n -> {College(s, t) : s \in Schools, t \in InputTags}]
            : n \in 0..MaxSchools}

\* the workflow call of the list generation: it throws, its CollegeList does
\* not parse to a list, or it parses to a list
ListOutcomes ==
    {[kind |-> "fail", list |-> <<>>], [kind |-> "malformed", list |-> <<>>]}
    \cup {[kind |-> "list", list |-> l] : l \in CollegeLists}

\* the outcomes drawn when requests interleave: the tags that are bucketed
ConcListOutcomes ==
    {o \in ListOutcomes :
        /\ o.kind # "malformed"
        /\ \A i \in 1..Len(o.list) : o.list[i].category \in {"Reach", "target"}}

\* the outcomes with which the list generation fails
FailedListOutcomes == {o \in ListOutcomes : o.kind # "list"}

\* the workflow call of generateWhyReasons: it throws, or yields reasons
WhyOutcomes ==
    {[kind |-> "fail", reasons |-> <<>>]}
    \cup {[kind |-> "reasons", reasons |-> l] : l \in ReasonLists}

\* a handler that goes on with whatever the workflow call gave
listParsesAlways(outcome) == TRUE

\* callDifyWorkflow returned and JSON.parse(collegeListString).map did not throw
listParses(outcome) == outcome.kind = "list"

\* allColleges.map(c => ({ ...c, reasons: [] }))
allCollegesWithReasons(allColleges) ==
    [i \in 1..Len(allColleges) |->
        [school |-> allColleges[i].school,
         category |-> allColleges[i].category,
         reasons |-> <<>>]]

\* the three filters of categorizedList
categorizedList(allColleges) ==
    LET all == allCollegesWithReasons(allColleges)
    IN  [reach |-> SelectSeq(all, LAMBDA c : c.category \in {"Reach", "reach"}),
         target |-> SelectSeq(all, LAMBDA c : c.category \in {"Target", "target"}),
         likely |-> SelectSeq(all, LAMBDA c : c.category \in {"Safety", "likely"})]

\* a list that is added to the stored one
appendCollegeList(collegeList, categorized, now) ==
    [reach |-> collegeList.reach \o categorized.reach,
     target |-> collegeList.target \o categorized.target,
     likely |-> collegeList.likely \o categorized.likely,
     lastGenerated |-> now]

\* profile.collegeList = { ...categorizedList, lastGenerated: new Date() }
newCollegeList(collegeList, categorized, now) ==
    [reach |-> categorized.reach,
     target |-> categorized.target,
     likely |-> categorized.likely,
     lastGenerated |-> now]

\* a test without the trim
hasSummaryNoTrim(summary) ==
    \/ summary.kind = "ai"
    \/ summary.kind = "string" /\ summary.text # <<>>

\* profile.profileSummary && profile.profileSummary.trim() !== ''
hasSummary(summary) ==
    \/ summary.kind = "ai"
    \/ summary.kind = "string" /\ Trim(summary.text) # <<>>

\* what a response of the college handlers carries, and history about it
NoInfo == [school |-> "", reasons |-> <<>>]

\* [...reach, ...target, ...likely]
allColleges(collegeList) ==
    collegeList.reach \o collegeList.target \o collegeList.likely

\* history: the new list names a school the old list holds reasons for
replacesReasons(old, new) ==
    \E i \in 1..Len(allColleges(old)) : \E j \in 1..Len(allColleges(new)) :
        /\ allColleges(old)[i].reasons # <<>>
        /\ allColleges(old)[i].school = allColleges(new)[j].school

\* POST /api/colleges/generate up to its first await after findOne
GenerateBegin(u) ==
    /\ issued' = issued + 1
    /\ IF u \notin DOMAIN store
       THEN /\ done' = Response(issued + 1, "generate", u, 404, NoInfo, 0, FALSE)
            /\ UNCHANGED inflight
       ELSE /\ inflight' = inflight \cup
                {[n |-> issued + 1, kind |-> "generate", user |-> u,
                  body |-> NoInfo,
                  pc |-> IF hasSummary(findOne(u).profileSummary)
                         THEN "list" ELSE "summary",
                  loaded |-> findOne(u), base |-> findOne(u), doc |-> findOne(u),
                  sent |-> findOne(u).profileSummary,
                  generated |-> FALSE,
                  ai |-> <<>>]}
            /\ UNCHANGED done
    /\ UNCHANGED <<store, merged, calls>>

\* profileSummary = await generateProfileSummary(profile); profile.profileSummary = ...
GenerateSummary(r, outcome) ==
    /\ r.kind = "generate" /\ r.pc = "summary"
    /\ inflight' = (inflight \ {r}) \cup
        {[r EXCEPT !.pc = "savesummary",
                   !.doc.profileSummary = generateProfileSummary(r.doc, outcome),
                   !.sent = generateProfileSummary(r.doc, outcome),
                   !.generated = TRUE]}
    /\ UNCHANGED <<store, issued, done, merged, calls>>

\* await profile.save() of the new summary; the workflow call is issued next
GenerateSaveSummary(r) ==
    /\ r.kind = "generate" /\ r.pc = "savesummary"
    /\ store' = save(r.user, r.base, r.doc)
    /\ inflight' = (inflight \ {r}) \cup {[r EXCEPT !.pc = "list", !.base = r.doc]}
    /\ UNCHANGED <<issued, done, merged, calls>>

\* the college-list workflow call returns; the list is parsed and bucketed
GenerateList(r, outcome) ==
    /\ r.kind = "generate" /\ r.pc = "list"
    /\ IF listParses(outcome)
       THEN /\ inflight' = (inflight \ {r}) \cup
                {[r EXCEPT !.pc = "save",
                           !.ai = outcome.list,
                           !.body = [NoInfo EXCEPT !.reasons = outcome.kind],
                           !.doc.collegeList =
                                newCollegeList(@, categorizedList(outcome.list),
                                               issued)]}
            /\ UNCHANGED done
       ELSE /\ inflight' = inflight \ {r}
            /\ done' = Response(r.n, "generate", r.user, 500,
                                [kind |-> outcome.kind,
                                 generated |-> r.generated, sent |-> r.sent,
                                 replaced |-> FALSE],
                                0, FALSE)
    /\ UNCHANGED <<store, issued, merged, calls>>

\* await profile.save(); res.json(categorizedList)
GenerateSave(r) ==
    /\ r.kind = "generate" /\ r.pc = "save"
    /\ store' = save(r.user, r.base, r.doc)
    /\ inflight' = inflight \ {r}
    /\ done' = Response(r.n, "generate", r.user, 200,
                        [kind |-> r.body.reasons,
                         generated |-> r.generated, sent |-> r.sent,
                         replaced |-> replacesReasons(store[r.user].collegeList,
                                                      r.doc.collegeList)],
                        0, FALSE)
    /\ calls' = [calls EXCEPT ![r.user] = [s \in Schools |-> 0]]
    /\ UNCHANGED <<issued, merged>>

-----------------------------------------------------------------------------
(* The why-reasons *)

\* a scan that starts at the last bucket
scanOrderReversed == <<"likely", "target", "reach">>

\* for (const category of ['reach', 'target', 'likely'])
scanOrder == <<"reach", "target", "likely">>

\* profile.collegeList[category].find(c => c.school === schoolName)
findSchool(bucket, schoolName) ==
    LET hits == {i \in 1..Len(bucket) : bucket[i].school = schoolName}
    IN  IF hits = {} THEN 0 ELSE CHOOSE i \in hits : \A j \in hits : i <= j

\* a loop that falls back to the reach bucket when no record matches
findCollegeDefaultPath(collegeList, schoolName) ==
    LET hits == {k \in 1..Len(scanOrder) :
                    findSchool(collegeList[scanOrder[k]], schoolName) # 0}
    IN  IF hits = {}
        THEN [found |-> FALSE, path |-> "reach", reasons |-> <<>>]
        ELSE LET k == CHOOSE k \in hits : \A j \in hits : k <= j
                 bucket == collegeList[scanOrder[k]]
             IN  [found |-> TRUE, path |-> scanOrder[k],
                  reasons |-> bucket[findSchool(bucket, schoolName)].reasons]

\* the loop over the buckets: collegeToUpdate and categoryPath
findCollege(collegeList, schoolName) ==
    LET hits == {k \in 1..Len(scanOrder) :
                    findSchool(collegeList[scanOrder[k]], schoolName) # 0}
    IN  IF hits = {}
        THEN [found |-> FALSE, path |-> "none", reasons |-> <<>>]
        ELSE LET k == CHOOSE k \in hits : \A j \in hits : k <= j
                 bucket == collegeList[scanOrder[k]]
             IN  [found |-> TRUE, path |-> scanOrder[k],
                  reasons |-> bucket[findSchool(bucket, schoolName)].reasons]

\* a handler that never uses the stored reasons
hasReasonsNever(college) == FALSE

\* collegeToUpdate && collegeToUpdate.reasons && collegeToUpdate.reasons.length > 0
hasReasons(college) == college.found /\ Len(college.reasons) > 0

\* Profile.updateOne({ userId, [path.school]: schoolName },
\*                   { $set: { [path.$.reasons]: reasons } })
\* on the stored document: the first matching element of the bucket
updateOne(u, path, schoolName, reasons) ==
    LET i == findSchool(store[u].collegeList[path], schoolName)
    IN  IF i = 0 THEN store
        ELSE [store EXCEPT ![u].collegeList[path][i].reasons = reasons]

\* a handler that writes back the document it loaded
whyWriteDocument(r) ==
    LET i == findSchool(r.loaded.collegeList[r.path], r.body.school)
    IN  [store EXCEPT ![r.user] =
            [r.loaded EXCEPT !.collegeList[r.path][i].reasons = r.body.reasons]]

\* the write of a why-request
whyWrite(r) == updateOne(r.user, r.path, r.body.school, r.body.reasons)

\* POST /api/colleges/why up to the await of generateWhyReasons
WhyBegin(u, schoolName) ==
    /\ issued' = issued + 1
    /\ IF u \notin DOMAIN store
       THEN /\ done' = Response(issued + 1, "why", u, 404, NoInfo, 0, FALSE)
            /\ UNCHANGED <<inflight, calls>>
       ELSE LET college == findCollege(findOne(u).collegeList, schoolName)
            IN  IF hasReasons(college)
                THEN /\ done' = Response(issued + 1, "why", u, 200,
                                    [school |-> schoolName,
                                     reasons |-> college.reasons,
                                     path |-> college.path,
                                     memo |-> TRUE, stored |-> FALSE,
                                     overlapped |-> FALSE],
                                    0, FALSE)
                     /\ UNCHANGED <<inflight, calls>>
                ELSE /\ inflight' = inflight \cup
                        {[n |-> issued + 1, kind |-> "why", user |-> u,
                          body |-> [school |-> schoolName, reasons |-> <<>>],
                          pc |-> "ai", loaded |-> findOne(u),
                          path |-> college.path]}
                     /\ calls' = [calls EXCEPT ![u][schoolName] = @ + 1]
                     /\ UNCHANGED done
    /\ UNCHANGED <<store, merged>>

\* generateWhyReasons returns or throws
WhyReasons(r, outcome) ==
    /\ r.kind = "why" /\ r.pc = "ai"
    /\ IF outcome.kind = "fail"
       THEN /\ inflight' = inflight \ {r}
            /\ done' = Response(r.n, "why", r.user, 500, NoInfo, 0, FALSE)
       ELSE IF r.path = "none"
       THEN /\ inflight' = inflight \ {r}
            /\ done' = Response(r.n, "why", r.user, 200,
                            [school |-> r.body.school,
                             reasons |-> outcome.reasons,
                             path |-> r.path,
                             memo |-> FALSE, stored |-> FALSE,
                             overlapped |-> FALSE],
                            0, FALSE)
       ELSE /\ inflight' = (inflight \ {r}) \cup
                {[r EXCEPT !.pc = "update", !.body.reasons = outcome.reasons]}
            /\ UNCHANGED done
    /\ UNCHANGED <<store, issued, merged, calls>>

\* await Profile.updateOne(...); res.json(reasons)
WhyUpdate(r) ==
    /\ r.kind = "why" /\ r.pc = "update"
    /\ store' = whyWrite(r)
    /\ inflight' = inflight \ {r}
    /\ done' = Response(r.n, "why", r.user, 200,
                    [school |-> r.body.school,
                     reasons |-> r.body.reasons,
                     path |-> r.path,
                     memo |-> FALSE,
                     stored |-> findSchool(store[r.user].collegeList[r.path],
                                           r.body.school) # 0,
                     overlapped |-> findOne(r.user) # r.loaded],
                    0, FALSE)
    /\ UNCHANGED <<issued, merged, calls>>

\* college.reasons = newReasons on the k-th element of allColleges
setReasons(collegeList, k, reasons) ==
    LET nr == Len(collegeList.reach)
        nt == Len(collegeList.target)
    IN  IF k <= nr
        THEN [collegeList EXCEPT !.reach[k].reasons = reasons]
        ELSE IF k <= nr + nt
        THEN [collegeList EXCEPT !.target[k - nr].reasons = reasons]
        ELSE [collegeList EXCEPT !.likely[k - nr - nt].reasons = reasons]

\* a loop that generates reasons for every element
nextRecord(collegeList, k) ==
    IF k <= Len(allColleges(collegeList)) THEN k ELSE 0

\* the next element, from position k on, the loop generates reasons for (0: none)
nextWithoutReasons(collegeList, k) ==
    LET all == allColleges(collegeList)
        todo == {i \in k..Len(all) : Len(all[i].reasons) = 0}
    IN  IF todo = {} THEN 0 ELSE CHOOSE i \in todo : \A j \in todo : i <= j

\* POST /api/colleges/update-all-reasons up to the first generateWhyReasons
UpdateAllBegin(u) ==
    /\ issued' = issued + 1
    /\ IF \/ u \notin DOMAIN store
          \/ findOne(u).profileSummary = EmptyString
       THEN /\ done' = Response(issued + 1, "updateall", u, 404, NoInfo, 0, FALSE)
            /\ UNCHANGED <<inflight, calls>>
       ELSE LET k == nextWithoutReasons(findOne(u).collegeList, 1)
            IN  IF k = 0
                THEN /\ done' = Response(issued + 1, "updateall", u, 200,
                                         NoInfo, 0, FALSE)
                     /\ UNCHANGED <<inflight, calls>>
                ELSE /\ inflight' = inflight \cup
                        {[n |-> issued + 1, kind |-> "updateall", user |-> u,
                          body |-> NoInfo, pc |-> "ai",
                          loaded |-> findOne(u), doc |-> findOne(u), idx |-> k,
                          called |-> <<k>>]}
                     /\ calls' = [calls EXCEPT
                            ![u][allColleges(findOne(u).collegeList)[k].school]
                                = @ + 1]
                     /\ UNCHANGED done
    /\ UNCHANGED <<store, merged>>

\* a catch block that saves what the loop had generated before the error
bulkUpdateCatchSaves(r) ==
    [store EXCEPT ![r.user].collegeList = r.doc.collegeList]

\* the catch block of the handler answers 500: the document is not saved
bulkUpdateCatch(r) == store

\* one generateWhyReasons of the loop returns or throws.  The body of the 500
\* response records, as history, how many calls of the sweep had returned
UpdateAllReasons(r, outcome) ==
    /\ r.kind = "updateall" /\ r.pc = "ai"
    /\ IF outcome.kind = "fail"
       THEN /\ inflight' = inflight \ {r}
            /\ done' = Response(r.n, "updateall", r.user, 500,
                                [school |-> "", reasons |-> <<>>,
                                 returned |-> Len(r.called) - 1], 0, FALSE)
            /\ store' = bulkUpdateCatch(r)
            /\ UNCHANGED calls
       ELSE LET collegeList == setReasons(r.doc.collegeList, r.idx, outcome.reasons)
                k == nextWithoutReasons(collegeList, r.idx + 1)
            IN  /\ inflight' = (inflight \ {r}) \cup
                    {[r EXCEPT !.doc.collegeList = collegeList,
                               !.pc = IF k = 0 THEN "save" ELSE "ai",
                               !.idx = k,
                               !.called = IF k = 0 THEN @ ELSE Append(@, k)]}
                /\ calls' = IF k = 0 THEN calls
                            ELSE [calls EXCEPT
                                    ![r.user][allColleges(collegeList)[k].school]
                                        = @ + 1]
                /\ UNCHANGED <<done, store>>
    /\ UNCHANGED <<issued, merged>>

\* profile.markModified('collegeList'); await profile.save(); res.json(...)
UpdateAllSave(r) ==
    /\ r.kind = "updateall" /\ r.pc = "save"
    /\ store' = [store EXCEPT ![r.user].collegeList = r.doc.collegeList]
    /\ inflight' = inflight \ {r}
    /\ done' = Response(r.n, "updateall", r.user, 200, NoInfo, 0, FALSE)
    /\ UNCHANGED <<issued, merged, calls>>

\* the profile updates sent along with the college requests
CollegePutBodies ==
    {b \in PutBodies :
        /\ b.hasQ /\ b.category = "academics"
        /\ b.answers = <<[id |-> "a1", answer |-> "A"]>>
        /\ ~b.hasT}

SequentialColleges == inflight = {} /\ issued < MaxCollegeRequests

CollegesNext ==
    \/ \E u \in UserIds : SequentialColleges /\ CreateUser(u)
    \/ \E u \in UserIds : SequentialColleges /\ GenerateBegin(u)
    \/ \E r \in inflight : \E outcome \in SummaryOutcomes :
            GenerateSummary(r, outcome)
    \/ \E r \in inflight : GenerateSaveSummary(r)
    \/ \E r \in inflight : \E outcome \in ListOutcomes : GenerateList(r, outcome)
    \/ \E r \in inflight : GenerateSave(r)
    \/ \E u \in UserIds : \E s \in Schools : SequentialColleges /\ WhyBegin(u, s)
    \/ \E r \in inflight : \E outcome \in WhyOutcomes : WhyReasons(r, outcome)
    \/ \E r \in inflight : WhyUpdate(r)
    \/ \E u \in UserIds : SequentialColleges /\ UpdateAllBegin(u)
    \/ \E r \in inflight : \E outcome \in WhyOutcomes : UpdateAllReasons(r, outcome)
    \/ \E r \in inflight : UpdateAllSave(r)

SpecColleges == Init /\ [][CollegesNext]_vars

ConcurrentColleges ==
    Cardinality(inflight) < MaxInFlight /\ issued < MaxCollegeConcRequests

CollegesConcNext ==
    \/ \E u \in UserIds : ConcurrentColleges /\ CreateUser(u)
    \/ \E u \in UserIds : \E body \in CollegePutBodies :
            ConcurrentColleges /\ PutBegin(u, body)
    \/ \E r \in inflight : \E outcome \in ConcSummaryOutcomes : PutSummary(r, outcome)
    \/ \E r \in inflight : PutSave(r)
    \/ \E u \in UserIds : ConcurrentColleges /\ GenerateBegin(u)
    \/ \E r \in inflight : \E outcome \in ConcSummaryOutcomes :
            GenerateSummary(r, outcome)
    \/ \E r \in inflight : GenerateSaveSummary(r)
    \/ \E r \in inflight : \E outcome \in ConcListOutcomes : GenerateList(r, outcome)
    \/ \E r \in inflight : GenerateSave(r)
    \/ \E u \in UserIds : \E s \in Schools : ConcurrentColleges /\ WhyBegin(u, s)
    \/ \E r \in inflight : \E outcome \in WhyOutcomes : WhyReasons(r, outcome)
    \/ \E r \in inflight : WhyUpdate(r)
    \/ \E u \in UserIds : ConcurrentColleges /\ UpdateAllBegin(u)
    \/ \E r \in inflight : \E outcome \in WhyOutcomes : UpdateAllReasons(r, outcome)
    \/ \E r \in inflight : UpdateAllSave(r)

SpecCollegesConc == Init /\ [][CollegesConcNext]_vars

-----------------------------------------------------------------------------
(* Reading a profile *)

\* the keys of answersForUI
UICategories == {"collegeMatch", "academics", "interests", "financial"}

\* the positions of the records of a category with a question id
recordsOf(questionnaire, category, id) ==
    {i \in 1..Len(questionnaire) :
        questionnaire[i].category = category /\ questionnaire[i].id = id}

\* the greatest position of a non-empty set of positions
last(positions) == CHOOSE i \in positions : \A j \in positions : j <= i

\* obj[id] = value makes id a key of the object literal obj, except for the
\* id "__proto__": that assignment goes to the prototype setter of the object
\* and adds no key
assignsKey(id) == id # "__proto__"

\* profile.questionnaire.forEach(item => { if (answersForUI[item.category])
\* answersForUI[item.category][item.id] = item.answer }): per category the
\* answer of the last record of each question id that becomes a key
answersForUI(questionnaire) ==
    [c \in UICategories |->
        [id \in {questionnaire[i].id :
                    i \in {j \in 1..Len(questionnaire) :
                                /\ questionnaire[j].category = c
                                /\ assignsKey(questionnaire[j].id)}} |->
            questionnaire[last(recordsOf(questionnaire, c, id))].answer]]

\* a handler that saves the basic profile it builds for an unknown user
unknownProfileSaved(u) ==
    [v \in DOMAIN store \cup {u} |-> IF v = u THEN NewProfile ELSE store[v]]

\* the basic profile built for an unknown user is not saved
unknownProfile(u) == store

\* GET /api/profile/:userId
GetProfile(u) ==
    /\ issued' = issued + 1
    /\ IF u \notin DOMAIN store
       THEN /\ store' = unknownProfile(u)
            /\ done' = Response(issued + 1, "profile", u, 404, NoBody, 0, FALSE)
       ELSE /\ done' = Response(issued + 1, "profile", u, 200, findOne(u), 0, FALSE)
            /\ UNCHANGED store
    /\ UNCHANGED <<inflight, merged, calls>>

\* GET /api/profile/:userId/answers
GetAnswers(u) ==
    /\ issued' = issued + 1
    /\ IF u \notin DOMAIN store
       THEN done' = Response(issued + 1, "answers", u, 404, NoBody, 0, FALSE)
       ELSE done' = Response(issued + 1, "answers", u, 200,
                             answersForUI(findOne(u).questionnaire), 0, FALSE)
    /\ UNCHANGED <<store, inflight, merged, calls>>

-----------------------------------------------------------------------------
(* The application strategies *)

\* the parsed answers of the strategies workflow
StrategyAnswers ==
    {[earlyDecision |-> <<"S1">>, earlyAction |-> <<>>,
      strengthsToHighlight |-> <<"h1">>],
     [earlyDecision |-> <<>>, earlyAction |-> <<"S2">>,
      strengthsToHighlight |-> <<>>]}

\* what the strategies workflow call does: it throws, or it returns an answer
\* that JSON.parse rejects, or one that parses
StrategyOutcomes ==
    {[kind |-> k, strategies |-> NewProfile.applicationStrategies]
        : k \in {"fail", "malformed"}}
    \cup {[kind |-> "answer", strategies |-> a] : a \in StrategyAnswers}

\* !profile.collegeList is false for every document: collegeList is a nested
\* path of the schema, which a loaded document always has as an object
hasCollegeList(profile) == "collegeList" \in DOMAIN profile

\* the "- school" lines of one bucket
schoolLines(bucket) ==
    Concat([i \in 1..Len(bucket) |-> <<"- ", bucket[i].school, "\n">>])

\* the text listing of the three buckets under their headers
collegeListString(collegeList) ==
    Str(Concat(<<<<"Reach Schools:\n">>, schoolLines(collegeList.reach),
                 <<"\nTarget Schools:\n">>, schoolLines(collegeList.target),
                 <<"\nLikely Schools:\n">>, schoolLines(collegeList.likely)>>))

\* a handler that goes on with whatever the strategies call gave
strategyParsesAlways(outcome) == TRUE

\* callDifyWorkflow returned and JSON.parse(aiData.data.outputs.answer) did
\* not throw
strategyParses(outcome) == outcome.kind = "answer"

\* an assignment that keeps the parts of the old value the answer leaves empty
mergeStrategies(applicationStrategies, strategies) ==
    [k \in DOMAIN applicationStrategies |->
        IF strategies[k] = <<>> THEN applicationStrategies[k] ELSE strategies[k]]

\* profile.applicationStrategies = strategies
setStrategies(applicationStrategies, strategies) == strategies

\* POST /api/strategies/generate, up to the workflow call
StrategiesBegin(u) ==
    /\ issued' = issued + 1
    /\ IF u \notin DOMAIN store \/ ~hasCollegeList(findOne(u))
       THEN /\ done' = Response(issued + 1, "strategies", u, 404, NoInfo, 0, FALSE)
            /\ UNCHANGED inflight
       ELSE /\ inflight' = inflight \cup
                {[n |-> issued + 1, kind |-> "strategies", user |-> u,
                  body |-> NoInfo, pc |-> "ai",
                  loaded |-> findOne(u), doc |-> findOne(u),
                  sent |-> [profile |-> findOne(u).profileSummary,
                            college_list |->
                                collegeListString(findOne(u).collegeList)]]}
            /\ UNCHANGED done
    /\ UNCHANGED <<store, merged, calls>>

\* the strategies workflow call returns or throws; the answer is parsed
StrategiesAnswer(r, outcome) ==
    /\ r.kind = "strategies" /\ r.pc = "ai"
    /\ IF strategyParses(outcome)
       THEN /\ inflight' = (inflight \ {r}) \cup
                {[r EXCEPT !.pc = "save",
                           !.doc.applicationStrategies =
                                setStrategies(@, outcome.strategies)]}
            /\ UNCHANGED done
       ELSE /\ inflight' = inflight \ {r}
            /\ done' = Response(r.n, "strategies", r.user, 500, NoInfo, 0, FALSE)
    /\ UNCHANGED <<store, issued, merged, calls>>

\* await profile.save(); res.json(strategies).  replaced is history: the
\* profile held strategies of an earlier request
StrategiesSave(r) ==
    /\ r.kind = "strategies" /\ r.pc = "save"
    /\ store' = save(r.user, r.loaded, r.doc)
    /\ inflight' = inflight \ {r}
    /\ done' = Response(r.n, "strategies", r.user, 200,
                        [strategies |-> r.doc.applicationStrategies,
                         replaced |-> r.loaded.applicationStrategies
                                        # NewProfile.applicationStrategies],
                        0, FALSE)
    /\ UNCHANGED <<issued, merged, calls>>

SequentialStrategies == inflight = {} /\ issued < MaxStrategyRequests

StrategiesNext ==
    \/ \E u \in UserIds : SequentialStrategies /\ CreateUser(u)
    \/ \E u \in UserIds : \E body \in CollegePutBodies :
            SequentialStrategies /\ PutBegin(u, body)
    \/ \E r \in inflight : \E outcome \in SummaryOutcomes : PutSummary(r, outcome)
    \/ \E r \in inflight : PutSave(r)
    \/ \E u \in UserIds : SequentialStrategies /\ GenerateBegin(u)
    \/ \E r \in inflight : \E outcome \in SummaryOutcomes :
            GenerateSummary(r, outcome)
    \/ \E r \in inflight : GenerateSaveSummary(r)
    \/ \E r \in inflight : \E outcome \in ListOutcomes : GenerateList(r, outcome)
    \/ \E r \in inflight : GenerateSave(r)
    \/ \E u \in UserIds : \E s \in Schools : SequentialStrategies /\ WhyBegin(u, s)
    \/ \E r \in inflight : \E outcome \in WhyOutcomes : WhyReasons(r, outcome)
    \/ \E r \in inflight : WhyUpdate(r)
    \/ \E u \in UserIds : SequentialStrategies /\ UpdateAllBegin(u)
    \/ \E r \in inflight : \E outcome \in WhyOutcomes : UpdateAllReasons(r, outcome)
    \/ \E r \in inflight : UpdateAllSave(r)
    \/ \E u \in UserIds : SequentialStrategies /\ StrategiesBegin(u)
    \/ \E r \in inflight : \E outcome \in StrategyOutcomes :
            StrategiesAnswer(r, outcome)
    \/ \E r \in inflight : StrategiesSave(r)
    \/ \E u \in UserIds : SequentialStrategies /\ GetProfile(u)
    \/ \E u \in UserIds : SequentialStrategies /\ GetAnswers(u)

SpecStrategies == Init /\ [][StrategiesNext]_vars

-----------------------------------------------------------------------------
(* Updates and read-backs of the answers *)

RoundTripAnswerValues == {"A", "B"}

\* the keys of an answer map: a question id of the catalog, and a key that
\* JSON.parse makes an own property of the map like any other
RoundTripQuestionIds == {"a1", "__proto__"}

\* the answer maps of the updates that are read back
RoundTripAnswerMaps ==
    {a \in UNION {[1..n -> [id : RoundTripQuestionIds, answer : RoundTripAnswerValues]]
                    : n \in 0..MaxAnswers} :
        \A i, j \in 1..Len(a) : a[i].id = a[j].id => i = j}

\* updates of the questionnaire alone, for two categories of the catalog
RoundTripBodies ==
    {[hasQ |-> TRUE, category |-> c, answers |-> a,
      hasT |-> FALSE, tracker |-> <<>>]
        : c \in {"academics", "interests"}, a \in RoundTripAnswerMaps}

SequentialAnswers == inflight = {} /\ issued < MaxAnswerRequests

AnswersNext ==
    \/ \E u \in UserIds : SequentialAnswers /\ CreateUser(u)
    \/ \E u \in UserIds : \E body \in RoundTripBodies :
            SequentialAnswers /\ PutBegin(u, body)
    \/ \E r \in inflight : \E outcome \in ConcSummaryOutcomes :
            PutSummary(r, outcome)
    \/ \E r \in inflight : PutSave(r)
    \/ \E u \in UserIds : SequentialAnswers /\ GetAnswers(u)

SpecAnswers == Init /\ [][AnswersNext]_vars

-----------------------------------------------------------------------------
(* Properties of the profile update *)

Known(category) == category \in DOMAIN ALL_QUESTIONS

SuccessfulPut == done.kind = "put" /\ done.status = 200

\* the catalog's text for a question id of a category, or the placeholder
CatalogText(category, id) ==
    LET entries == {ALL_QUESTIONS[category][i] : i \in DOMAIN ALL_QUESTIONS[category]}
        known == {q \in entries : q.id = id}
    IN  IF known = {} THEN "Unknown Question"
        ELSE (CHOOSE q \in known : TRUE).question

\* the records a payload stands for
FreshRecords(category, answers) ==
    [i \in 1..Len(answers) |->
        [id |-> answers[i].id, category |-> category,
         question |-> CatalogText(category, answers[i].id),
         answer |-> answers[i].answer]]

\* C1: after any sequence of profile updates the stored questionnaire holds
\* at most one Answer record per (category, question id) pair.
C1_OneAnswerPerQuestion ==
    \A u \in DOMAIN store :
        LET q == store[u].questionnaire
        IN  \A i, j \in 1..Len(q) :
                (q[i].category = q[j].category /\ q[i].id = q[j].id) => i = j

\* an update that replaced stale records of its category has been saved
C1_Witness ==
    /\ SuccessfulPut /\ MergeRuns(done.body)
    /\ done.removed > 0
    /\ \E i \in 1..Len(done.body.answers) :
        \E j \in 1..Len(store[done.user].questionnaire) :
            /\ store[done.user].questionnaire[j].id = done.body.answers[i].id
            /\ store[done.user].questionnaire[j].category = done.body.category

C3_NoMergedAnswersLost ==
    inflight = {} =>
        \A u \in DOMAIN store : \A c \in DOMAIN merged :
            merged[c] # {} =>
                \E answers \in merged[c] :
                    categoryRecords(store[u].questionnaire, c)
                        = FreshRecords(c, answers)

\* C4: merging the same (category, answers) payload twice in a row leaves the
\* questionnaire as the first merge left it.
C4_RepeatedMergeChangesNothing ==
    [][\A r \in inflight :
        (PutSave(r) /\ Repeats(r.body)) =>
            store'[r.user].questionnaire = store[r.user].questionnaire
       ]_vars

\* the same non-empty payload was merged twice in a row into a catalog category
C4_Witness ==
    /\ SuccessfulPut /\ done.repeat
    /\ Known(done.body.category)
    /\ Len(done.body.answers) > 0
    /\ done.removed = Len(done.body.answers)

\* C5: merging an empty answer map for a catalog category removes every
\* stored record of the category, inserts none and keeps the other records.
C5_EmptyAnswersDeleteCategory ==
    [][\A r \in inflight :
        (PutSave(r) /\ r.body.hasQ /\ Known(r.body.category)
            /\ r.body.answers = <<>>) =>
            LET before == store[r.user].questionnaire
                after == store'[r.user].questionnaire
            IN  /\ categoryRecords(after, r.body.category) = <<>>
                /\ after = SelectSeq(before,
                                LAMBDA q : q.category # r.body.category)
       ]_vars

\* an empty merge deleted the stored records of its category
C5_Witness ==
    /\ SuccessfulPut /\ done.body.hasQ /\ Known(done.body.category)
    /\ done.body.answers = <<>>
    /\ done.removed > 0
    /\ categoryRecords(store[done.user].questionnaire, done.body.category) = <<>>

C7_RecordsCarryCatalogText ==
    (SuccessfulPut /\ done.body.hasQ /\ Known(done.body.category)) =>
        LET recs == categoryRecords(store[done.user].questionnaire,
                                    done.body.category)
            answers == done.body.answers
        IN  /\ Len(recs) = Len(answers)
            /\ \A i \in 1..Len(answers) :
                /\ recs[i].id = answers[i].id
                /\ recs[i].category = done.body.category
                /\ recs[i].answer = answers[i].answer
                /\ recs[i].question =
                        CatalogText(done.body.category, answers[i].id)

\* a merge stored one record with a catalog text and one with the placeholder
C7_Witness ==
    /\ SuccessfulPut /\ done.body.hasQ /\ done.body.category = "academics"
    /\ \E i, j \in 1..Len(store[done.user].questionnaire) :
        /\ store[done.user].questionnaire[i].id = "a1"
        /\ store[done.user].questionnaire[i].question
                = "What is your GPA (on a 4.0 scale)?"
        /\ store[done.user].questionnaire[j].id = "zz"
        /\ store[done.user].questionnaire[j].question = "Unknown Question"

\* C8: an update carrying a tracker object sets every key it names to the
\* supplied value and leaves every other top-level tracker key unchanged.
C8_TrackerShallowMerge ==
    [][\A r \in inflight :
        (PutSave(r) /\ r.body.hasT) =>
            LET before == store[r.user].tracker
                after == store'[r.user].tracker
            IN  /\ \A k \in DOMAIN r.body.tracker :
                    k \in DOMAIN after /\ after[k] = r.body.tracker[k]
                /\ \A k \in (DOMAIN before) \ (DOMAIN r.body.tracker) :
                    k \in DOMAIN after /\ after[k] = before[k]
       ]_vars

\* an update of tracker.sat alone was saved over a tracker.gpa set earlier
C8_Witness ==
    /\ SuccessfulPut /\ done.body.hasT
    /\ DOMAIN done.body.tracker = {"sat"}
    /\ store[done.user].tracker.sat = done.body.tracker.sat
    /\ store[done.user].tracker.gpa # DefaultTracker.gpa
    /\ store[done.user].tracker.competitions = DefaultTracker.competitions

\* C9: after a successful update the persisted profileSummary is the Summary
\* Generator's result for the profile as persisted, i.e. as merged.
C9_SummaryOfMergedProfile ==
    SuccessfulPut =>
        \E outcome \in AIOutcomes :
            store[done.user].profileSummary
                = generateProfileSummary(store[done.user], outcome)

\* a merge that changed the questionnaire was saved with the workflow's
\* summary of the new questionnaire
C9_Witness ==
    /\ SuccessfulPut /\ MergeRuns(done.body)
    /\ Len(done.body.answers) > 0
    /\ done.removed = 0
    /\ store[done.user].profileSummary
            = AISummary(profileString(store[done.user]))

-----------------------------------------------------------------------------
(* Properties of the Summary Generator *)

Range(seq) == {seq[i] : i \in DOMAIN seq}

\* the (question, answer) pairs of the "- question: answer" lines of a text
AnswerLines(text) ==
    LET marks == SelectSeq([i \in 1..Len(text) |-> i],
                           LAMBDA i : text[i] = "- ")
    IN  [k \in 1..Len(marks) |-> <<text[marks[k] + 1], text[marks[k] + 3]>>]

\* C11: generateProfileSummary never throws to its caller: when the workflow
\* call fails it returns the plain-text rendering of the profile, which has
\* one line per questionnaire answer in stored order, an interests line only
\* if there are discovered interests and a strengths line only if there are
\* discovered strengths.
C11_FallbackIsPlainRendering ==
    \A r \in inflight :
        (r.kind = "put" /\ r.pc = "ai") =>
            LET p == summaryInput(r)
                s == generateProfileSummary(p, "fail")
                q == p.questionnaire
            IN  /\ s.kind = "string"
                /\ Head(s.text) = "--- Student Profile ---"
                /\ AnswerLines(s.text)
                        = [i \in 1..Len(q) |-> <<q[i].question, q[i].answer>>]
                /\ ("Discovered Interests: " \in Range(s.text))
                        <=> (p.discovered.interests # <<>>)
                /\ ("Discovered Strengths: " \in Range(s.text))
                        <=> (p.discovered.strengths # <<>>)
                /\ ("Discovered Strengths: " \in Range(s.text)) =>
                        \A i \in 1..Len(p.discovered.strengths) :
                            p.discovered.strengths[i] \in Range(s.text)

\* an update of a profile with answers and strengths stored the fallback text
C11_Witness ==
    /\ SuccessfulPut
    /\ Len(store[done.user].questionnaire) = 2
    /\ store[done.user].discovered.strengths # <<>>
    /\ store[done.user].profileSummary.kind = "string"
    /\ store[done.user].profileSummary = profileString(store[done.user])

\* C12: for every profile and every outcome of the workflow call the result
\* of generateProfileSummary is a non-empty string.
C12_SummaryIsNonEmptyString ==
    \A r \in inflight :
        (r.kind = "put" /\ r.pc = "save") =>
            /\ r.doc.profileSummary.kind \in {"string", "ai"}
            /\ r.doc.profileSummary.text # <<>>

-----------------------------------------------------------------------------
(* Properties of the college list generation *)

\* a summary that is absent, empty or made of white space only
IsBlank(summary) ==
    \/ summary.kind = "undefined"
    \/ /\ summary.kind = "string"
       /\ \A i \in 1..Len(summary.text) : summary.text[i] \in {" ", "\n", ""}

\* C13: list generation is read-through for the summary: when the stored
\* profileSummary is empty or white space, a summary is generated and
\* persisted before the college-list workflow call is issued; when it is not,
\* the generator is not invoked, the stored summary stays as it is and that
\* stored value is what is sent to the workflow.
C13_SummaryReadThrough ==
    /\ \A r \in inflight :
        (r.kind = "generate" /\ r.pc \in {"list", "save"}) =>
            /\ store[r.user].profileSummary = r.sent
            /\ IF IsBlank(r.loaded.profileSummary)
               THEN /\ r.generated
                    /\ \E outcome \in SummaryOutcomes :
                        r.sent = generateProfileSummary(r.loaded, outcome)
               ELSE /\ ~r.generated
                    /\ r.sent = r.loaded.profileSummary
    /\ (inflight = {} /\ done.kind = "generate" /\ done.status \in {200, 500}) =>
            store[done.user].profileSummary = done.body.sent

\* a stored summary of white space was replaced before the workflow call
C13_Witness ==
    \E r \in inflight :
        /\ r.kind = "generate" /\ r.pc = "list"
        /\ r.loaded.profileSummary = Str(<<" ">>)
        /\ r.generated
        /\ r.sent.kind = "ai"
        /\ store[r.user].profileSummary = r.sent

\* String.prototype.toLowerCase on the tags of the model
LowerCase ==
    [Reach |-> "reach", target |-> "target", Safety |-> "safety",
     Likely |-> "likely", Other |-> "other"]

\* the records of a workflow list whose tag is, in any casing, one of names
TaggedAnyCase(list, names) ==
    SelectSeq([i \in 1..Len(list) |->
                    [school |-> list[i].school, category |-> list[i].category,
                     reasons |-> <<>>]],
              LAMBDA c : LowerCase[c.category] \in names)

\* C14: list generation buckets every school of the workflow's list by its
\* tag compared case-insensitively: reach to reach, target to target, likely
\* or Safety to likely, any other tag to no bucket, each bucket in the
\* workflow's order.
C14_BucketsIgnoreCase ==
    \A r \in inflight :
        (r.kind = "generate" /\ r.pc = "save") =>
            /\ r.doc.collegeList.reach = TaggedAnyCase(r.ai, {"reach"})
            /\ r.doc.collegeList.target = TaggedAnyCase(r.ai, {"target"})
            /\ r.doc.collegeList.likely = TaggedAnyCase(r.ai, {"likely", "safety"})

InList(collegeList, schoolName) ==
    \E i \in 1..Len(allColleges(collegeList)) :
        allColleges(collegeList)[i].school = schoolName

\* C15: a successful list generation stores exactly the newly generated
\* buckets and a fresh lastGenerated: no record of the previous list remains,
\* every stored record has an empty reasons list, and the next why-request for
\* a school of the list calls the workflow again.
C15_GenerationReplacesList ==
    [][/\ \A r \in inflight :
            GenerateSave(r) =>
                LET new == store'[r.user].collegeList
                    all == allColleges(new)
                IN  /\ done'.status = 200
                    /\ new.lastGenerated > store[r.user].collegeList.lastGenerated
                    /\ Len(all) <= Len(r.ai)
                    /\ \A i \in 1..Len(all) :
                        /\ all[i].reasons = <<>>
                        /\ College(all[i].school, all[i].category) \in Range(r.ai)
                    /\ \A i \in 1..Len(r.ai) :
                        r.ai[i].category \in {"Reach", "target", "Safety"} =>
                            InList(new, r.ai[i].school)
       /\ \A u \in UserIds : \A s \in Schools :
            (/\ done.kind = "generate" /\ done.status = 200 /\ done.user = u
             /\ InList(store[u].collegeList, s)
             /\ WhyBegin(u, s)) =>
                /\ calls'[u][s] = 1
                /\ \E r \in inflight' : r.kind = "why" /\ r.body.school = s
      ]_vars

\* a generation replaced a list that held reasons for one of its schools
C15_Witness ==
    /\ done.kind = "generate" /\ done.status = 200
    /\ done.body.replaced
    /\ \A i \in 1..Len(allColleges(store[done.user].collegeList)) :
        allColleges(store[done.user].collegeList)[i].reasons = <<>>

\* C16, as claimed: when the college-list workflow call fails or its answer
\* does not parse, the request reports an error and the persisted profile,
\* profileSummary included, is what it was before the request.
C16_FailureWritesNothing ==
    [][\A r \in inflight : \A outcome \in FailedListOutcomes :
        GenerateList(r, outcome) =>
            /\ done'.status = 500
            /\ [store'[r.user] EXCEPT !.profileSummary =
                    IF @ = Undefined THEN EmptyString ELSE @] = r.loaded
      ]_vars

\* C16, amended: when the college-list workflow call fails or its answer does
\* not parse, the request reports an error and the persisted collegeList,
\* lastGenerated and every field other than profileSummary are what they were
\* before the request; profileSummary is what it was when it was not blank,
\* and otherwise is the summary generated and persisted before the call.
C16_FailureKeepsCollegeList ==
    [][\A r \in inflight : \A outcome \in FailedListOutcomes :
        GenerateList(r, outcome) =>
            /\ done'.kind = "generate" /\ done'.status = 500
            /\ store' = store
            /\ \A f \in (DOMAIN r.loaded) \ {"profileSummary"} :
                    store'[r.user][f] = r.loaded[f]
            /\ IF IsBlank(r.loaded.profileSummary)
               THEN store'[r.user].profileSummary = r.sent /\ r.generated
               ELSE store'[r.user].profileSummary = r.loaded.profileSummary
      ]_vars

\* a generation failed after it had persisted a new summary
C16_Witness ==
    /\ done.kind = "generate" /\ done.status = 500
    /\ done.body.generated
    /\ store[done.user].profileSummary = done.body.sent
    /\ store[done.user].profileSummary.kind = "ai"

-----------------------------------------------------------------------------
(* Properties of the why-reasons *)

\* the first record named schoolName in the first of reach, target, likely
\* that has one
EarliestRecord(collegeList, schoolName) ==
    LET in(b) == {i \in 1..Len(collegeList[b]) :
                    collegeList[b][i].school = schoolName}
        b == IF in("reach") # {} THEN "reach"
             ELSE IF in("target") # {} THEN "target" ELSE "likely"
    IN  [bucket |-> b,
         record |-> collegeList[b][CHOOSE i \in in(b) : \A j \in in(b) : i <= j]]

\* C17: when the matched school record has a non-empty reasons list the
\* why-request returns that list and makes no workflow call and no write; so
\* of two consecutive why-requests for one school, the first of which stored
\* non-empty reasons, the second returns the same reasons and calls the
\* workflow zero times.
C17_WhyReasonsMemoized ==
    [][\A u \in DOMAIN store : \A s \in Schools :
        (/\ WhyBegin(u, s)
         /\ InList(store[u].collegeList, s)
         /\ EarliestRecord(store[u].collegeList, s).record.reasons # <<>>) =>
            /\ done'.kind = "why" /\ done'.status = 200
            /\ done'.body.reasons
                    = EarliestRecord(store[u].collegeList, s).record.reasons
            /\ calls' = calls
            /\ inflight' = inflight
            /\ store' = store
            /\ (/\ done.kind = "why" /\ done.status = 200 /\ done.user = u
                /\ done.body.school = s /\ done.body.stored) =>
                    done'.body.reasons = done.body.reasons
      ]_vars

\* a why-request was answered from the reasons the request before it stored
C17_Witness ==
    /\ done.kind = "why" /\ done.status = 200
    /\ done.body.memo
    /\ done.body.reasons # <<>>
    /\ calls[done.user][done.body.school] = 1

\* C18: for one profile and one school of its college list, the why-reasons
\* workflow is invoked at most once between two regenerations of the list,
\* over every interleaving of why-requests and bulk backfill requests.
C18_AtMostOneWorkflowCallPerSchool ==
    \A u \in DOMAIN store : \A s \in Schools :
        InList(store[u].collegeList, s) => calls[u][s] <= 1

\* C19: the write of a why-request changes only the reasons field of the one
\* matched school record: whatever was committed to another part of the
\* profile between the request's read and its write is still there after it.
C19_WhyWriteIsTargeted ==
    [][\A r \in inflight :
        WhyUpdate(r) =>
            LET old == store[r.user]
                new == store'[r.user]
                changed == {i \in 1..Len(old.collegeList[r.path]) :
                                new.collegeList[r.path][i]
                                    # old.collegeList[r.path][i]}
            IN  /\ DOMAIN store' = DOMAIN store
                /\ \A f \in (DOMAIN old) \ {"collegeList"} : new[f] = old[f]
                /\ \A b \in (DOMAIN old.collegeList) \ {r.path} :
                        new.collegeList[b] = old.collegeList[b]
                /\ Len(new.collegeList[r.path]) = Len(old.collegeList[r.path])
                /\ Cardinality(changed) <= 1
                /\ \A i \in changed :
                    /\ old.collegeList[r.path][i].school = r.body.school
                    /\ new.collegeList[r.path][i]
                        = [old.collegeList[r.path][i] EXCEPT
                                !.reasons = r.body.reasons]
      ]_vars

\* a why-request stored its reasons after another write to the same profile
\* was committed between its read and its write
C19_Witness ==
    /\ done.kind = "why" /\ done.status = 200
    /\ done.body.stored /\ done.body.overlapped
    /\ done.body.reasons # <<>>
    /\ \E s \in Schools \ {done.body.school} :
        /\ InList(store[done.user].collegeList, s)
        /\ EarliestRecord(store[done.user].collegeList, s).record.reasons # <<>>

\* C20: a why-request scans the buckets in the order reach, target, likely and
\* takes the first record named as requested; when the name is in several
\* buckets the memoization check and the stored reasons concern the record of
\* the earliest bucket.
C20_EarliestBucketWins ==
    [][/\ \A r \in inflight :
            (WhyUpdate(r) /\ InList(store[r.user].collegeList, r.body.school)) =>
                LET e == EarliestRecord(store[r.user].collegeList, r.body.school)
                IN  /\ r.path = e.bucket
                    /\ EarliestRecord(store'[r.user].collegeList,
                                      r.body.school).record.reasons
                            = r.body.reasons
                    /\ \A b \in {"reach", "target", "likely"} \ {e.bucket} :
                        store'[r.user].collegeList[b]
                            = store[r.user].collegeList[b]
       /\ \A u \in DOMAIN store : \A s \in Schools :
            (WhyBegin(u, s) /\ InList(store[u].collegeList, s)) =>
                LET e == EarliestRecord(store[u].collegeList, s)
                IN  IF e.record.reasons # <<>>
                    THEN /\ done'.status = 200
                         /\ done'.body.path = e.bucket
                         /\ done'.body.reasons = e.record.reasons
                    ELSE \E r \in inflight' :
                            r.kind = "why" /\ r.body.school = s
                                /\ r.path = e.bucket
      ]_vars

\* reasons were stored for a school that is in the reach and the target
\* bucket: the reach record has them, the target record has none
C20_Witness ==
    /\ done.kind = "why" /\ done.status = 200 /\ done.body.stored
    /\ done.body.reasons # <<>>
    /\ done.body.path = "reach"
    /\ \E i \in 1..Len(store[done.user].collegeList.target) :
        /\ store[done.user].collegeList.target[i].school = done.body.school
        /\ store[done.user].collegeList.target[i].reasons = <<>>
    /\ EarliestRecord(store[done.user].collegeList,
                      done.body.school).record.reasons = done.body.reasons

\* C21: when no school record of any bucket is named as requested, a
\* why-request still calls the workflow and returns the generated reasons, but
\* writes nothing: the persisted profile is unchanged.
C21_UnmatchedSchoolIsNotStored ==
    [][/\ \A u \in DOMAIN store : \A s \in Schools :
            (WhyBegin(u, s) /\ ~InList(store[u].collegeList, s)) =>
                /\ calls'[u][s] = calls[u][s] + 1
                /\ store' = store
                /\ \E r \in inflight' : r.n = issued' /\ r.body.school = s
       /\ \A r \in inflight : \A outcome \in WhyOutcomes :
            (/\ WhyReasons(r, outcome)
             /\ outcome.kind = "reasons"
             /\ ~InList(r.loaded.collegeList, r.body.school)) =>
                /\ done'.n = r.n /\ done'.status = 200
                /\ done'.body.reasons = outcome.reasons
                /\ inflight' = inflight \ {r}
                /\ store' = store
      ]_vars

\* generated reasons were returned for a school that is in no bucket
C21_Witness ==
    /\ done.kind = "why" /\ done.status = 200
    /\ ~done.body.memo /\ ~done.body.stored
    /\ done.body.reasons # <<>>
    /\ Len(allColleges(store[done.user].collegeList)) > 0
    /\ ~InList(store[done.user].collegeList, done.body.school)
    /\ calls[done.user][done.body.school] = 1

-----------------------------------------------------------------------------
(* Properties of the bulk backfill *)

\* the positions of [...reach, ...target, ...likely] without reasons, ascending
EmptyPositions(collegeList) ==
    SelectSeq([i \in 1..Len(allColleges(collegeList)) |-> i],
              LAMBDA i : allColleges(collegeList)[i].reasons = <<>>)

\* C22: a bulk backfill visits the records of reach, then target, then likely
\* and issues exactly one why-reasons call for each record without reasons and
\* none for a record with reasons; one call is pending at a time, records with
\* reasons keep them, and a sweep makes at most as many calls as there are
\* records.
C22_SweepCallsOncePerEmptyRecord ==
    \A r \in inflight :
        r.kind = "updateall" =>
            LET todo == EmptyPositions(r.loaded.collegeList)
                old == allColleges(r.loaded.collegeList)
                new == allColleges(r.doc.collegeList)
            IN  /\ Len(r.called) <= Len(old)
                /\ Len(r.called) <= Len(todo)
                /\ \A i \in 1..Len(r.called) : r.called[i] = todo[i]
                /\ r.pc = "ai" => r.idx = r.called[Len(r.called)]
                /\ r.pc = "save" => r.called = todo
                /\ Len(new) = Len(old)
                /\ \A i \in 1..Len(old) :
                        old[i].reasons # <<>> => new[i] = old[i]
                /\ calls[r.user][old[r.called[1]].school] >= 1

\* a sweep over a record with reasons and a record without ended after one call
C22_Witness ==
    \E r \in inflight :
        /\ r.kind = "updateall" /\ r.pc = "save"
        /\ Len(allColleges(r.loaded.collegeList)) = 2
        /\ allColleges(r.loaded.collegeList)[1].reasons # <<>>
        /\ r.called = <<2>>
        /\ allColleges(r.doc.collegeList)[2].reasons # <<>>

\* C23: a bulk backfill writes the profile once, after the whole sweep, if the
\* reasons of some record changed during the sweep, and performs no write at
\* all if no record changed, also when every generation returned an empty
\* list: the save of a sweep that changed no record leaves the stored profile
\* as it is, whatever was committed in between.
C23_UnchangedSweepDoesNotWrite ==
    [][\A r \in inflight :
        (UpdateAllSave(r) /\ r.doc.collegeList = r.loaded.collegeList) =>
            store' = store
      ]_vars

\* C24: a bulk backfill persists only fully successful sweeps: when a call of
\* the sweep fails the request answers with an error, no later school is
\* attempted and nothing generated earlier in the sweep is persisted.
C24_FailedSweepPersistsNothing ==
    [][\A r \in inflight : \A outcome \in WhyOutcomes :
        (UpdateAllReasons(r, outcome) /\ outcome.kind = "fail") =>
            /\ done'.n = r.n /\ done'.status = 500
            /\ inflight' = inflight \ {r}
            /\ calls' = calls
            /\ store' = store
            /\ store'[r.user] = r.loaded
      ]_vars

\* a sweep failed at its second call, and the reasons its first call returned
\* are not in the stored list
C24_Witness ==
    /\ done.kind = "updateall" /\ done.status = 500
    /\ done.body.returned = 1
    /\ inflight = {}
    /\ \A i \in 1..Len(allColleges(store[done.user].collegeList)) :
            allColleges(store[done.user].collegeList)[i].reasons = <<>>
    /\ Len(allColleges(store[done.user].collegeList)) = 2

\* C30: a regeneration of the college list that commits while a bulk backfill
\* is between its read and its save is not undone by the backfill: the save of
\* the backfill leaves the list of a later generation in the store.
C30_BackfillKeepsRegeneratedList ==
    [][\A r \in inflight :
        (/\ UpdateAllSave(r)
         /\ store[r.user].collegeList.lastGenerated
                > r.loaded.collegeList.lastGenerated) =>
            /\ store'[r.user].collegeList.lastGenerated
                    = store[r.user].collegeList.lastGenerated
            /\ \A b \in {"reach", "target", "likely"} :
                    Len(store'[r.user].collegeList[b])
                        = Len(store[r.user].collegeList[b])
      ]_vars

-----------------------------------------------------------------------------
(* Properties of the application strategies and of failing workflow calls *)

\* the buckets and the date of a profile for which no list was ever saved
NeverGenerated(profile) == profile.collegeList = NewProfile.collegeList

\* C25: a strategies request for a profile with no college list is answered
\* with a not-found error, issues no workflow call and leaves
\* applicationStrategies as it is.
C25_NoCollegeListIsNotFound ==
    [][\A u \in DOMAIN store :
        (StrategiesBegin(u) /\ NeverGenerated(store[u])) =>
            /\ done'.n = issued' /\ done'.status = 404
            /\ inflight' = inflight
            /\ store' = store
      ]_vars

\* C26: strategy generation is all-or-nothing: an answer that parses becomes
\* the stored applicationStrategies as a whole, in place of the earlier value,
\* and no other field changes; when the call fails or its answer does not
\* parse the request answers with an error and the stored profile is unchanged.
C26_StrategiesAllOrNothing ==
    [][\A r \in inflight :
        /\ \A outcome \in StrategyOutcomes :
              StrategiesAnswer(r, outcome) =>
                /\ store' = store
                /\ IF outcome.kind = "answer"
                   THEN \E q \in inflight' :
                            /\ q.n = r.n /\ q.pc = "save"
                            /\ q.doc.applicationStrategies = outcome.strategies
                            /\ q.doc = [r.loaded EXCEPT !.applicationStrategies
                                                        = outcome.strategies]
                   ELSE /\ done'.n = r.n /\ done'.status = 500
                        /\ inflight' = inflight \ {r}
                        /\ store'[r.user].applicationStrategies
                                = r.loaded.applicationStrategies
        /\ StrategiesSave(r) =>
                /\ store'[r.user].applicationStrategies
                        = r.doc.applicationStrategies
                /\ \A f \in DOMAIN store[r.user] \ {"applicationStrategies"} :
                        store'[r.user][f] = store[r.user][f]
                /\ done'.n = r.n /\ done'.status = 200
                /\ done'.body.strategies = r.doc.applicationStrategies
      ]_vars

\* a second answer took the place of the strategies of an earlier request
C26_Witness ==
    /\ done.kind = "strategies" /\ done.status = 200
    /\ done.body.replaced
    /\ done.body.strategies \in StrategyAnswers
    /\ done.body.strategies.earlyDecision = <<>>
    /\ store[done.user].applicationStrategies = done.body.strategies

\* the request r ends with an error and nothing of it is left to call again
EndsInError(r) ==
    /\ done'.n = r.n /\ done'.status = 500
    /\ inflight' = inflight \ {r}
    /\ issued' = issued
    /\ calls' = calls

\* the request r goes on after the step
GoesOn(r) ==
    /\ \E q \in inflight' : q.n = r.n
    /\ done' = done

\* C27: no workflow call is retried: when the call of a list generation, of a
\* why-request, of a bulk backfill or of a strategy generation fails, the
\* request issues no further call and ends with an error response; only the
\* failure of the summary call lets its request go on, with the fallback.
C27_FailedCallEndsRequest ==
    [][\A r \in inflight :
        /\ \A outcome \in FailedListOutcomes :
                (GenerateList(r, outcome) /\ outcome.kind = "fail")
                    => EndsInError(r)
        /\ \A outcome \in WhyOutcomes :
                ((WhyReasons(r, outcome) \/ UpdateAllReasons(r, outcome))
                    /\ outcome.kind = "fail") => EndsInError(r)
        /\ \A outcome \in StrategyOutcomes :
                (StrategiesAnswer(r, outcome) /\ outcome.kind = "fail")
                    => EndsInError(r)
        /\ (GenerateSummary(r, "fail") \/ PutSummary(r, "fail")) =>
                /\ GoesOn(r)
                /\ \E q \in inflight' :
                        q.n = r.n /\ q.doc.profileSummary = profileString(q.doc)
      ]_vars

\* the one call of a why-request failed and the request was answered 500
C27_Witness ==
    /\ done.kind = "why" /\ done.status = 500
    /\ inflight = {}
    /\ \E s \in Schools :
            /\ calls[done.user][s] = 1
            /\ \A t \in Schools \ {s} : calls[done.user][t] = 0

\* C29: as long as no list generation has succeeded for a user, whose three
\* buckets are then at their creation defaults, a strategies request of that
\* user issues no workflow call: no such call is ever pending.
C29_NoCallWithoutGeneratedList ==
    \A r \in inflight :
        (r.kind = "strategies" /\ r.pc = "ai") => ~NeverGenerated(r.loaded)

\* C28: a profile update is never failed by the AI collaborator: when the
\* summary call fails during an update the request goes on to its save, the
\* update answers 200 and the stored profile has the merged questionnaire and
\* tracker, with the plain rendering of the merged profile as profileSummary.
C28_UpdateSurvivesSummaryFailure ==
    [][\A r \in inflight :
        /\ PutSummary(r, "fail") =>
                /\ done' = done
                /\ store' = store
                /\ \E q \in inflight' :
                        /\ q.n = r.n /\ q.pc = "save"
                        /\ q.doc.questionnaire
                                = updatedProfile(r.loaded, r.body).questionnaire
                        /\ q.doc.tracker = updatedProfile(r.loaded, r.body).tracker
                        /\ q.doc.profileSummary
                                = profileString(updatedProfile(r.loaded, r.body))
        /\ (PutSave(r) /\ r.doc.profileSummary = profileString(r.doc)) =>
                /\ done'.n = r.n /\ done'.status = 200
                /\ store'[r.user].questionnaire = r.doc.questionnaire
                /\ store'[r.user].tracker = r.doc.tracker
                /\ store'[r.user].profileSummary = profileString(store'[r.user])
      ]_vars

\* an update with answers and tracker values was stored with the rendering
C28_Witness ==
    /\ SuccessfulPut
    /\ done.body.hasQ /\ done.body.hasT /\ MergeRuns(done.body)
    /\ Len(done.body.answers) > 0
    /\ store[done.user].questionnaire # <<>>
    /\ store[done.user].tracker # DefaultTracker
    /\ store[done.user].profileSummary.kind = "string"
    /\ store[done.user].profileSummary = profileString(store[done.user])

-----------------------------------------------------------------------------
(* Properties of the profile's existence and of the answers read-back *)

\* the step answers not-found at once: no call is pending or counted and the
\* store is as it was
NotFoundOnly ==
    /\ done'.n = issued' /\ done'.status = 404
    /\ inflight' = inflight
    /\ calls' = calls
    /\ store' = store

\* C31: a profile exists only through account creation: a profile read, an
\* update, an answers read, a list, why, backfill or strategy generation for
\* a user without a stored profile answers not-found, issues no workflow call
\* and leaves the store without a profile of that user; an account creation
\* for an existing user is rejected and leaves the profile as it is.
C31_ProfileOnlyByCreation ==
    [][\A u \in UserIds :
        /\ u \notin DOMAIN store =>
            /\ (\/ GetProfile(u) \/ GetAnswers(u)
                \/ \E body \in CollegePutBodies : PutBegin(u, body)
                \/ GenerateBegin(u)
                \/ \E s \in Schools : WhyBegin(u, s)
                \/ UpdateAllBegin(u)
                \/ StrategiesBegin(u)) => NotFoundOnly
            /\ u \in DOMAIN store' =>
                    /\ done'.kind = "create" /\ done'.status = 201
                    /\ store'[u] = NewProfile
        /\ (u \in DOMAIN store /\ CreateUser(u)) =>
            /\ done'.n = issued' /\ done'.status = 409
            /\ store' = store
      ]_vars

\* three requests for a user without a profile, the last an answers read
C31_Witness ==
    /\ done.kind = "answers" /\ done.status = 404
    /\ done.n = 3
    /\ done.user \notin DOMAIN store
    /\ inflight = {}

\* the answer map of a payload: question id to answer value
AnswerMapOf(answers) ==
    [id \in {answers[i].id : i \in 1..Len(answers)} |->
        (CHOOSE e \in Range(answers) : e.id = id).answer]

\* C32: after a successful update that merges the answer map A into a catalog
\* category C, the answers read-back returns exactly A under C, with the same
\* question ids and answer values, and for every other category the map it
\* returned before the update.
C32_AnswersRoundTrip ==
    [][/\ \A r \in inflight :
            (PutSave(r) /\ r.body.hasQ /\ r.body.category \in UICategories) =>
                /\ done'.status = 200
                /\ answersForUI(store'[r.user].questionnaire)[r.body.category]
                        = AnswerMapOf(r.body.answers)
                /\ \A c \in UICategories \ {r.body.category} :
                        answersForUI(store'[r.user].questionnaire)[c]
                            = answersForUI(store[r.user].questionnaire)[c]
       /\ \A u \in DOMAIN store :
            (/\ GetAnswers(u)
             /\ SuccessfulPut /\ done.user = u
             /\ done.body.hasQ /\ done.body.category \in UICategories) =>
                /\ done'.status = 200
                /\ done'.body[done.body.category]
                        = AnswerMapOf(done.body.answers)
                /\ done'.body = answersForUI(store[u].questionnaire)
      ]_vars

====
